---- MODULE Spec2Model ----
(***************************************************************************)
(* Tic-Tac-Two: two WebSocket server processes keep one room record in a   *)
(* shared Redis store consistent with WATCH / MULTI / EXEC and propagate   *)
(* every change over Redis pub/sub.                                        *)
(*                                                                         *)
(* A step of the model is one command executed by Redis for one task,      *)
(* followed by the synchronous continuation of that task up to its next    *)
(* await.  Every process has one kv, one pub and one sub client; a client  *)
(* executes its commands in the order they were issued, so each client is  *)
(* a FIFO queue of the tasks waiting on it.                                *)
(***************************************************************************)
EXTENDS Integers, Sequences, FiniteSets, TLC

\* ------------------------------------------------------------------ bounds
\* messages and closes the clients produce in a run
MaxClientEvents == 2

\* ------------------------------------------------------ program constants
SIZE == 3
EMPTY == ""
JoinAttempts == 5
MoveAttempts == 8

\* -------------------------------------------------------------- universe
Procs == {"p1", "p2"}
Conns == {"a", "b", "c"}
Rooms == {"r1", "r2"}
Seats == {"X", "O"}

\* the server process each client connected to
ProcOf(c) == IF c = "c" THEN "p2" ELSE "p1"
\* the display name each client joins under
NameOf(c) == CASE c = "a" -> "Alice" [] c = "b" -> "Bob" [] OTHER -> "Carol"

\* the (row, col) pairs a client may send; column 3 is outside the board
Cells == {<<0, 2>>, <<1, 1>>, <<0, 3>>}

INSTANCE_ID(p) == p
gameKey(gameId) == <<"tictac:game", gameId>>
chan(gameId) == <<"tictac:chan", gameId>>

\* JSON.stringify / JSON.parse of a value made of strings, numbers, null,
\* arrays and plain objects: the text determines the value and nothing else
JSONstringify(v) == <<"json", v>>
JSONparse(s) == s[2]

Put(f, k, v) == [x \in DOMAIN f \cup {k} |-> IF x = k THEN v ELSE f[x]]
Del(f, k) == [x \in DOMAIN f \ {k} |-> f[x]]

\* ------------------------------------------------------------ game engine
Idx == 0 .. (SIZE - 1)

createEmptyBoard == [r \in Idx |-> [c \in Idx |-> EMPTY]]

initialState(gameId) ==
  [gameId |-> gameId, board |-> createEmptyBoard, players |-> <<>>,
   nextTurn |-> "X", status |-> "waiting", winner |-> "null", version |-> 0]

\* assignSeat without the increment of the version
assignSeatSameVersion(state, playerInfo) ==
  IF "X" \notin DOMAIN state.players
  THEN [state EXCEPT !.players = Put(@, "X", playerInfo)]
  ELSE IF "O" \notin DOMAIN state.players
  THEN [state EXCEPT !.players = Put(@, "O", playerInfo),
                     !.status = IF @ = "waiting" THEN "running" ELSE @]
  ELSE [throw |-> "Game already has two players"]

\* the full-room case throws; the callers below never reach it
assignSeat(state, playerInfo) ==
  IF "X" \notin DOMAIN state.players
  THEN [state EXCEPT !.players = Put(@, "X", playerInfo),
                     !.version = @ + 1]
  ELSE IF "O" \notin DOMAIN state.players
  THEN [state EXCEPT !.players = Put(@, "O", playerInfo),
                     !.status = IF @ = "waiting" THEN "running" ELSE @,
                     !.version = @ + 1]
  ELSE [throw |-> "Game already has two players"]

\* the eight lines in the order the code pushes them
Lines(board) ==
  << <<board[0][0], board[0][1], board[0][2]>>,
     <<board[0][0], board[1][0], board[2][0]>>,
     <<board[1][0], board[1][1], board[1][2]>>,
     <<board[0][1], board[1][1], board[2][1]>>,
     <<board[2][0], board[2][1], board[2][2]>>,
     <<board[0][2], board[1][2], board[2][2]>>,
     <<board[0][0], board[1][1], board[2][2]>>,
     <<board[0][2], board[1][1], board[2][0]>> >>

LineWon(l) == l[1] # EMPTY /\ l[1] = l[2] /\ l[2] = l[3]

\* checkWinner that looks at the rows and columns only
checkWinnerNoDiagonals(board) ==
  LET ls == SubSeq(Lines(board), 1, 2 * SIZE)
      won == {i \in 1 .. Len(ls) : LineWon(ls[i])}
  IN IF won # {}
     THEN ls[CHOOSE i \in won : \A j \in won : i <= j][1]
     ELSE IF \E r \in Idx : \E c \in Idx : board[r][c] = EMPTY
          THEN "null" ELSE "draw"

checkWinner(board) ==
  LET ls == Lines(board)
      won == {i \in 1 .. Len(ls) : LineWon(ls[i])}
  IN IF won # {}
     THEN ls[CHOOSE i \in won : \A j \in won : i <= j][1]
     ELSE IF \E r \in Idx : \E c \in Idx : board[r][c] = EMPTY
          THEN "null" ELSE "draw"

\* validateMove without the check of the turn
validateMoveAnyTurn(state, playerSeat, row, col) ==
  IF state.status # "running" THEN "Game is not running"
  ELSE IF row < 0 \/ row >= SIZE \/ col < 0 \/ col >= SIZE THEN "Out of bounds"
  ELSE IF state.board[row][col] # EMPTY THEN "Cell not empty"
  ELSE ""

\* validateMove without the check that the cell is empty
validateMoveOverwrites(state, playerSeat, row, col) ==
  IF state.status # "running" THEN "Game is not running"
  ELSE IF playerSeat # state.nextTurn THEN "Not your turn"
  ELSE IF row < 0 \/ row >= SIZE \/ col < 0 \/ col >= SIZE THEN "Out of bounds"
  ELSE ""

\* validateMove with the bounds check ahead of the turn check
validateMoveBoundsFirst(state, playerSeat, row, col) ==
  IF state.status # "running" THEN "Game is not running"
  ELSE IF row < 0 \/ row >= SIZE \/ col < 0 \/ col >= SIZE THEN "Out of bounds"
  ELSE IF playerSeat # state.nextTurn THEN "Not your turn"
  ELSE IF state.board[row][col] # EMPTY THEN "Cell not empty"
  ELSE ""

\* the message of the error validateMove throws, "" when it returns
validateMove(state, playerSeat, row, col) ==
  IF state.status # "running" THEN "Game is not running"
  ELSE IF playerSeat # state.nextTurn THEN "Not your turn"
  ELSE IF row < 0 \/ row >= SIZE \/ col < 0 \/ col >= SIZE THEN "Out of bounds"
  ELSE IF state.board[row][col] # EMPTY THEN "Cell not empty"
  ELSE ""

\* applyMove that records a draw as the winner and leaves the status
applyMoveDrawKeepsStatus(state, playerSeat, row, col) ==
  LET b == [state.board EXCEPT ![row][col] = playerSeat]
      outcome == checkWinner(b)
      s == [state EXCEPT !.board = b]
      t == IF outcome = "draw"
           THEN [s EXCEPT !.winner = "draw"]
           ELSE IF outcome = "X" \/ outcome = "O"
           THEN [s EXCEPT !.status = "finished", !.winner = outcome]
           ELSE [s EXCEPT !.nextTurn = IF playerSeat = "X" THEN "O" ELSE "X"]
  IN [t EXCEPT !.version = @ + 1]

\* called only when validateMove returns
applyMove(state, playerSeat, row, col) ==
  LET b == [state.board EXCEPT ![row][col] = playerSeat]
      outcome == checkWinner(b)
      s == [state EXCEPT !.board = b]
      t == IF outcome = "draw"
           THEN [s EXCEPT !.status = "finished", !.winner = "draw"]
           ELSE IF outcome = "X" \/ outcome = "O"
           THEN [s EXCEPT !.status = "finished", !.winner = outcome]
           ELSE [s EXCEPT !.nextTurn = IF playerSeat = "X" THEN "O" ELSE "X"]
  IN [t EXCEPT !.version = @ + 1]

\* ------------------------------------------------------------------ state
VARIABLES
  store,            \* Redis keys: gameKey -> serialized room state
  watch,            \* Redis, per kv client: watched keys and the dirty flag
  subActive,        \* Redis, per sub client: channels subscribed
  bus,              \* per sub client: published messages not yet dispatched
  q,                \* per process and client: tasks awaiting a command, FIFO
  clientsByGame,    \* per process: gameId -> set of connections
  clientMeta,       \* per process memory: connection -> {gameId, seat, name}
  subscribedGames,  \* per process: set of gameIds
  open,             \* connection -> its socket is open
  task,             \* connection -> the message handler in progress
  inbox,            \* connection -> messages the client received, in order
  events,           \* number of client events so far
  commits,          \* history: the EXEC calls that applied their write
  ended             \* history: the move requests whose outcome is decided

vars == <<store, watch, subActive, bus, q, clientsByGame, clientMeta,
          subscribedGames, open, task, inbox, events, commits, ended>>

NoState == [none |-> TRUE]

Unwatched == [keys |-> {}, dirty |-> FALSE]

IdleTask(n) ==
  [pc |-> "idle", kind |-> "", gameId |-> "", seat |-> "", row |-> 0,
   col |-> 0, attempt |-> 0, st |-> NoState, next |-> NoState,
   seatToYou |-> "", base |-> 0, msg |-> "", n |-> n, name |-> "",
   cur |-> NoState,
   \* history: a foreign write came between WATCH and EXEC; the stored state
   \* when the message arrived; the writes and publications of the request
   touched |-> FALSE, subrec |-> NoState, writes |-> 0, pubs |-> 0]

\* a server pair that has just started on an empty store
InitEmpty ==
  /\ store = <<>>
  /\ watch = [p \in Procs |-> [keys |-> {}, dirty |-> FALSE]]
  /\ subActive = [p \in Procs |-> {}]
  /\ bus = [p \in Procs |-> <<>>]
  /\ q = [p \in Procs |-> [kv |-> <<>>, pub |-> <<>>, sub |-> <<>>]]
  /\ clientsByGame = [p \in Procs |-> <<>>]
  /\ clientMeta = <<>>
  /\ subscribedGames = [p \in Procs |-> {}]
  /\ open = [c \in Conns |-> TRUE]
  /\ task = [c \in Conns |-> IdleTask(0)]
  /\ inbox = [c \in Conns |-> <<>>]
  /\ events = 0
  /\ commits = {}
  /\ ended = {}

\* The room after a (p1) joined, then c (p2) joined, then the moves X(0,0),
\* O(1,0), X(0,1) were played, and then O(1,1), X(0,2) which end the game,
\* each request and each bus dispatch running to its end before the next
\* began.
SJ1 == assignSeat(initialState("r1"), [id |-> <<"a", 1, 0>>, name |-> "Alice"])
SJ2 == assignSeat(SJ1, [id |-> <<"c", 1, 0>>, name |-> "Carol"])
SM1 == applyMove(SJ2, "X", 0, 0)
SM2 == applyMove(SM1, "O", 1, 0)
SM3 == applyMove(SM2, "X", 0, 1)
SM4 == applyMove(SM3, "O", 1, 1)
SM5 == applyMove(SM4, "X", 0, 2)

Upd(state, ev) == [type |-> "update", state |-> state, ev |-> ev]
Asg(c, seat) == [type |-> "assigned", seat |-> seat, you |-> NameOf(c),
                 room |-> "r1", ev |-> <<c, 1>>]
Cmt(seq, ev, kind, seat, row, col, read, state, regs) ==
  [ev |-> ev, kind |-> kind, seat |-> seat, row |-> row, col |-> col,
   base |-> read.version, read |-> read, state |-> state, regs |-> regs,
   touched |-> FALSE, attempt |-> 0, name |-> NameOf(ev[1]), seq |-> seq]
End(seq, ev, kind, seat, row, col, subrec, read, result) ==
  [ev |-> ev, kind |-> kind, gameId |-> "r1", name |-> NameOf(ev[1]),
   seat |-> seat, row |-> row, col |-> col, subrec |-> subrec,
   read |-> read, result |-> result, base |-> read.version, attempt |-> 0,
   writes |-> IF kind = "join" THEN 2 ELSE 1,
   pubs |-> IF kind = "join" THEN 1 ELSE 0, seq |-> seq]

InitPlaying(moves) ==
  LET rec == CASE moves = 0 -> SJ2 [] moves = 3 -> SM3 [] moves = 5 -> SM5
      played == moves >= 3
      won == moves = 5
  IN
  /\ store = Put(<<>>, gameKey("r1"), JSONstringify(rec))
  /\ watch = [p \in Procs |-> Unwatched]
  /\ subActive = [p \in Procs |-> {chan("r1")}]
  /\ bus = [p \in Procs |-> <<>>]
  /\ q = [p \in Procs |-> [kv |-> <<>>, pub |-> <<>>, sub |-> <<>>]]
  /\ clientsByGame = [p \in Procs |->
        Put(<<>>, "r1", IF p = "p1" THEN {"a"} ELSE {"c"})]
  /\ clientMeta = [x \in {"a", "c"} |->
        [gameId |-> "r1", seat |-> IF x = "a" THEN "X" ELSE "O",
         name |-> NameOf(x)]]
  /\ subscribedGames = [p \in Procs |-> {"r1"}]
  /\ open = [c \in Conns |-> TRUE]
  /\ task = [c \in Conns |->
        IdleTask(CASE c = "a" -> IF won THEN 4 ELSE IF played THEN 3 ELSE 1
                   [] c = "c" -> IF won THEN 3 ELSE IF played THEN 2 ELSE 1
                   [] OTHER -> 0)]
  /\ inbox = [c \in Conns |->
        CASE c = "a" -> <<Asg("a", "X"), Upd(SJ1, <<"a", 1>>), Upd(SJ2, <<"c", 1>>)>>
                        \o (IF played THEN <<Upd(SM1, <<"a", 2>>), Upd(SM2, <<"c", 2>>),
                                             Upd(SM3, <<"a", 3>>)>> ELSE <<>>)
                        \o (IF won THEN <<Upd(SM4, <<"c", 3>>), Upd(SM5, <<"a", 4>>)>>
                            ELSE <<>>)
          [] c = "c" -> <<Asg("c", "O"), Upd(SJ2, <<"c", 1>>)>>
                        \o (IF played THEN <<Upd(SM1, <<"a", 2>>), Upd(SM2, <<"c", 2>>),
                                             Upd(SM3, <<"a", 3>>)>> ELSE <<>>)
                        \o (IF won THEN <<Upd(SM4, <<"c", 3>>), Upd(SM5, <<"a", 4>>)>>
                            ELSE <<>>)
          [] OTHER -> <<>>]
  /\ events = 0
  /\ commits = {Cmt(0, <<"a", 1>>, "join", "X", 0, 0, initialState("r1"), SJ1, {"a"}),
                Cmt(1, <<"c", 1>>, "join", "O", 0, 0, SJ1, SJ2, {"a", "c"})}
               \cup (IF played
                     THEN {Cmt(2, <<"a", 2>>, "move", "X", 0, 0, SJ2, SM1, {"a", "c"}),
                           Cmt(3, <<"c", 2>>, "move", "O", 1, 0, SM1, SM2, {"a", "c"}),
                           Cmt(4, <<"a", 3>>, "move", "X", 0, 1, SM2, SM3, {"a", "c"})}
                     ELSE {})
               \cup (IF won
                     THEN {Cmt(5, <<"c", 3>>, "move", "O", 1, 1, SM3, SM4, {"a", "c"}),
                           Cmt(6, <<"a", 4>>, "move", "X", 0, 2, SM4, SM5, {"a", "c"})}
                     ELSE {})
  /\ ended = {End(0, <<"a", 1>>, "join", "X", 0, 0, NoState, initialState("r1"), "assigned"),
              End(1, <<"c", 1>>, "join", "O", 0, 0, NoState, SJ1, "assigned")}
             \cup (IF played
                   THEN {End(2, <<"a", 2>>, "move", "X", 0, 0, SJ2, SJ2, "commit"),
                         End(3, <<"c", 2>>, "move", "O", 1, 0, SM1, SM1, "commit"),
                         End(4, <<"a", 3>>, "move", "X", 0, 1, SM2, SM2, "commit")}
                   ELSE {})
             \cup (IF won
                   THEN {End(5, <<"c", 3>>, "move", "O", 1, 1, SM3, SM3, "commit"),
                         End(6, <<"a", 4>>, "move", "X", 0, 2, SM4, SM4, "commit")}
                   ELSE {})

\* the servers start on an empty store, or the model starts in the middle of
\* the game above
Init == InitEmpty \/ InitPlaying(3)

\* The game above after its third move, with a late write still to come: c's
\* move O(1,0) was applied by EXEC and c's handler waits for the reply of the
\* SET of saveStateAndPublish; meanwhile a sent X(0,1), which ran to its end
\* on the state c committed, and its envelope was dispatched.
InitLateSet ==
  /\ store = Put(<<>>, gameKey("r1"), JSONstringify(SM3))
  /\ watch = [p \in Procs |-> Unwatched]
  /\ subActive = [p \in Procs |-> {chan("r1")}]
  /\ bus = [p \in Procs |-> <<>>]
  /\ q = [p \in Procs |-> [kv |-> IF p = "p2" THEN <<"c">> ELSE <<>>,
                            pub |-> <<>>, sub |-> <<>>]]
  /\ clientsByGame = [p \in Procs |->
        Put(<<>>, "r1", IF p = "p1" THEN {"a"} ELSE {"c"})]
  /\ clientMeta = [x \in {"a", "c"} |->
        [gameId |-> "r1", seat |-> IF x = "a" THEN "X" ELSE "O",
         name |-> NameOf(x)]]
  /\ subscribedGames = [p \in Procs |-> {"r1"}]
  /\ open = [c \in Conns |-> TRUE]
  /\ task = [c \in Conns |->
        CASE c = "a" -> IdleTask(3)
          [] c = "c" -> [IdleTask(2) EXCEPT
                           !.pc = "set", !.kind = "move", !.gameId = "r1",
                           !.seat = "O", !.row = 1, !.col = 0,
                           !.next = SM2, !.base = SM1.version,
                           !.name = "Carol", !.cur = SM1, !.subrec = SM1,
                           !.writes = 1]
          [] OTHER -> IdleTask(0)]
  /\ inbox = [c \in Conns |->
        CASE c = "a" -> <<Asg("a", "X"), Upd(SJ1, <<"a", 1>>), Upd(SJ2, <<"c", 1>>),
                          Upd(SM1, <<"a", 2>>), Upd(SM3, <<"a", 3>>)>>
          [] c = "c" -> <<Asg("c", "O"), Upd(SJ2, <<"c", 1>>),
                          Upd(SM1, <<"a", 2>>), Upd(SM3, <<"a", 3>>)>>
          [] OTHER -> <<>>]
  /\ events = 0
  /\ commits = {Cmt(0, <<"a", 1>>, "join", "X", 0, 0, initialState("r1"), SJ1, {"a"}),
                Cmt(1, <<"c", 1>>, "join", "O", 0, 0, SJ1, SJ2, {"a", "c"}),
                Cmt(2, <<"a", 2>>, "move", "X", 0, 0, SJ2, SM1, {"a", "c"}),
                Cmt(3, <<"c", 2>>, "move", "O", 1, 0, SM1, SM2, {"a", "c"}),
                Cmt(4, <<"a", 3>>, "move", "X", 0, 1, SM2, SM3, {"a", "c"})}
  /\ ended = {End(0, <<"a", 1>>, "join", "X", 0, 0, NoState, initialState("r1"), "assigned"),
              End(1, <<"c", 1>>, "join", "O", 0, 0, NoState, SJ1, "assigned"),
              End(2, <<"a", 2>>, "move", "X", 0, 0, SJ2, SJ2, "commit"),
              End(3, <<"c", 2>>, "move", "O", 1, 0, SM1, SM1, "commit"),
              End(4, <<"a", 3>>, "move", "X", 0, 1, SM2, SM2, "commit")}

\* Three joins of an empty room.  a and b (p1) both read the absent record
\* and both EXECs were applied, a's first; each then ran saveStateAndPublish
\* and was answered, and the envelopes were dispatched.  c (p2) was aborted
\* by each of the four writes and is about to begin its fifth attempt.
SB1 == assignSeat(initialState("r1"), [id |-> <<"b", 1, 0>>, name |-> "Bob"])
InitJoinBusy ==
  /\ store = Put(<<>>, gameKey("r1"), JSONstringify(SB1))
  /\ watch = [p \in Procs |-> Unwatched]
  /\ subActive = [p \in Procs |-> {chan("r1")}]
  /\ bus = [p \in Procs |-> <<>>]
  /\ q = [p \in Procs |-> [kv |-> IF p = "p2" THEN <<"c">> ELSE <<>>,
                            pub |-> <<>>, sub |-> <<>>]]
  /\ clientsByGame = [p \in Procs |->
        Put(<<>>, "r1", IF p = "p1" THEN {"a", "b"} ELSE {"c"})]
  /\ clientMeta = [x \in {"a", "b"} |->
        [gameId |-> "r1", seat |-> "X", name |-> NameOf(x)]]
  /\ subscribedGames = [p \in Procs |-> {"r1"}]
  /\ open = [c \in Conns |-> TRUE]
  /\ task = [c \in Conns |->
        IF c = "c"
          THEN [IdleTask(1) EXCEPT
                  !.pc = "watch", !.kind = "join", !.gameId = "r1",
                  !.attempt = 4, !.st = initialState("r1"),
                  !.next = assignSeat(SJ1, [id |-> <<"c", 1, 3>>,
                                            name |-> "Carol"]),
                  !.seatToYou = "O", !.base = 1, !.name = "Carol",
                  !.cur = SJ1, !.touched = TRUE]
          ELSE IdleTask(1)]
  /\ inbox = [c \in Conns |->
        CASE c = "a" -> <<Asg("a", "X"), Upd(SJ1, <<"a", 1>>)>>
          [] c = "b" -> <<Asg("b", "X"), Upd(SB1, <<"b", 1>>)>>
          [] OTHER -> <<Upd(SJ1, <<"a", 1>>), Upd(SB1, <<"b", 1>>)>>]
  /\ events = 0
  /\ commits = {Cmt(0, <<"a", 1>>, "join", "X", 0, 0, initialState("r1"), SJ1,
                    Conns),
                [Cmt(1, <<"b", 1>>, "join", "X", 0, 0, initialState("r1"), SB1,
                     Conns) EXCEPT !.touched = TRUE]}
  /\ ended = {End(0, <<"a", 1>>, "join", "X", 0, 0, NoState,
                  initialState("r1"), "assigned"),
              End(1, <<"b", 1>>, "join", "X", 0, 0, NoState,
                  initialState("r1"), "assigned")}

\* A long game with a move that keeps being aborted.  X is Alice on a and,
\* after b joined the full room under the name Alice, on b too (p1); O is
\* Carol on c (p2).  a and c played seven moves in turn.  b sent move (2,2)
\* after the first of them; each of its six attempts so far read a state
\* with X to move, was aborted at EXEC after a write by c, and was followed
\* on p1's kv client by the EXEC of a's next move.  b has issued the WATCH
\* of its seventh attempt; O is to move, and a has closed its connection.
MB2 == applyMove(SM1, "O", 0, 1)
MB3 == applyMove(MB2, "X", 1, 0)
MB4 == applyMove(MB3, "O", 1, 2)
MB5 == applyMove(MB4, "X", 2, 1)
MB6 == applyMove(MB5, "O", 2, 0)
MB7 == applyMove(MB6, "X", 0, 2)
InitMoveBusy ==
  /\ store = Put(<<>>, gameKey("r1"), JSONstringify(MB7))
  /\ watch = [p \in Procs |->
        IF p = "p1" THEN [keys |-> {gameKey("r1")}, dirty |-> TRUE]
        ELSE Unwatched]
  /\ subActive = [p \in Procs |-> {chan("r1")}]
  /\ bus = [p \in Procs |-> <<>>]
  /\ q = [p \in Procs |-> [kv |-> IF p = "p1" THEN <<"b">> ELSE <<>>,
                            pub |-> <<>>, sub |-> <<>>]]
  /\ clientsByGame = [p \in Procs |->
        Put(<<>>, "r1", IF p = "p1" THEN {"b"} ELSE {"c"})]
  /\ clientMeta = [x \in {"b", "c"} |->
        [gameId |-> "r1", seat |-> IF x = "c" THEN "O" ELSE "X",
         name |-> IF x = "c" THEN "Carol" ELSE "Alice"]]
  /\ subscribedGames = [p \in Procs |-> {"r1"}]
  /\ open = [c \in Conns |-> c # "a"]
  /\ task = [c \in Conns |->
        CASE c = "a" -> IdleTask(5)
          [] c = "c" -> IdleTask(4)
          [] OTHER -> [IdleTask(2) EXCEPT
                         !.pc = "get", !.kind = "move", !.gameId = "r1",
                         !.seat = "X", !.row = 2, !.col = 2, !.attempt = 6,
                         !.next = applyMove(MB6, "X", 2, 2),
                         !.base = MB6.version, !.name = "Alice",
                         !.cur = MB6, !.touched = TRUE, !.subrec = SJ2]]
  /\ inbox = [c \in Conns |->
        CASE c = "a" ->
               <<Asg("a", "X"), Upd(SJ1, <<"a", 1>>), Upd(SJ2, <<"c", 1>>),
                 Upd(SM1, <<"a", 2>>), Upd(MB3, <<"a", 3>>),
                 Upd(MB2, <<"c", 2>>), Upd(MB5, <<"a", 4>>),
                 Upd(MB4, <<"c", 3>>), Upd(MB6, <<"c", 4>>),
                 Upd(MB7, <<"a", 5>>)>>
          [] c = "b" ->
               <<[Asg("b", "X") EXCEPT !.you = "Alice"],
                 Upd(SJ2, <<"b", 1>>),
                 Upd(SM1, <<"a", 2>>), Upd(MB3, <<"a", 3>>),
                 Upd(MB2, <<"c", 2>>), Upd(MB5, <<"a", 4>>),
                 Upd(MB4, <<"c", 3>>), Upd(MB6, <<"c", 4>>),
                 Upd(MB7, <<"a", 5>>)>>
          [] OTHER ->
               <<Asg("c", "O"), Upd(SJ2, <<"c", 1>>), Upd(MB2, <<"c", 2>>),
                 Upd(SM1, <<"a", 2>>), Upd(MB3, <<"a", 3>>),
                 Upd(MB4, <<"c", 3>>), Upd(MB5, <<"a", 4>>),
                 Upd(MB6, <<"c", 4>>), Upd(MB7, <<"a", 5>>)>>]
  /\ events = 0
  /\ commits =
       {Cmt(0, <<"a", 1>>, "join", "X", 0, 0, initialState("r1"), SJ1, {"a"}),
        Cmt(1, <<"c", 1>>, "join", "O", 0, 0, SJ1, SJ2, {"a", "c"}),
        Cmt(2, <<"a", 2>>, "move", "X", 0, 0, SJ2, SM1, Conns),
        [Cmt(3, <<"c", 2>>, "move", "O", 0, 1, SM1, MB2, Conns)
           EXCEPT !.attempt = 1],
        [Cmt(4, <<"a", 3>>, "move", "X", 1, 0, MB2, MB3, Conns)
           EXCEPT !.touched = TRUE],
        Cmt(5, <<"c", 3>>, "move", "O", 1, 2, MB3, MB4, Conns),
        [Cmt(6, <<"a", 4>>, "move", "X", 2, 1, MB4, MB5, Conns)
           EXCEPT !.touched = TRUE],
        Cmt(7, <<"c", 4>>, "move", "O", 2, 0, MB5, MB6, Conns),
        [Cmt(8, <<"a", 5>>, "move", "X", 0, 2, MB6, MB7, Conns)
           EXCEPT !.touched = TRUE]}
  /\ ended =
       {End(0, <<"a", 1>>, "join", "X", 0, 0, NoState, initialState("r1"),
            "assigned"),
        End(1, <<"c", 1>>, "join", "O", 0, 0, NoState, SJ1, "assigned"),
        [End(2, <<"b", 1>>, "join", "X", 0, 0, NoState, SJ2, "assigned")
           EXCEPT !.name = "Alice", !.writes = 0, !.pubs = 0],
        End(3, <<"a", 2>>, "move", "X", 0, 0, SJ2, SJ2, "commit"),
        [End(4, <<"c", 2>>, "move", "O", 0, 1, SM1, SM1, "commit")
           EXCEPT !.attempt = 1],
        End(5, <<"a", 3>>, "move", "X", 1, 0, MB2, MB2, "commit"),
        End(6, <<"c", 3>>, "move", "O", 1, 2, MB3, MB3, "commit"),
        End(7, <<"a", 4>>, "move", "X", 2, 1, MB4, MB4, "commit"),
        End(8, <<"c", 4>>, "move", "O", 2, 0, MB5, MB5, "commit"),
        End(9, <<"a", 5>>, "move", "X", 0, 2, MB6, MB6, "commit")}

\* Two rooms: a (p1) joined room r1 as Alice and then c (p2) joined room r2
\* as Carol; both joins ran to their end and the envelopes were dispatched.
SR2 == assignSeat(initialState("r2"), [id |-> <<"c", 1, 0>>, name |-> "Carol"])
InitTwoRooms ==
  /\ store = Put(Put(<<>>, gameKey("r1"), JSONstringify(SJ1)),
                 gameKey("r2"), JSONstringify(SR2))
  /\ watch = [p \in Procs |-> Unwatched]
  /\ subActive = [p \in Procs |-> IF p = "p1" THEN {chan("r1")}
                                  ELSE {chan("r2")}]
  /\ bus = [p \in Procs |-> <<>>]
  /\ q = [p \in Procs |-> [kv |-> <<>>, pub |-> <<>>, sub |-> <<>>]]
  /\ clientsByGame = [p \in Procs |->
        IF p = "p1" THEN Put(<<>>, "r1", {"a"}) ELSE Put(<<>>, "r2", {"c"})]
  /\ clientMeta = [x \in {"a", "c"} |->
        [gameId |-> IF x = "a" THEN "r1" ELSE "r2", seat |-> "X",
         name |-> NameOf(x)]]
  /\ subscribedGames = [p \in Procs |-> IF p = "p1" THEN {"r1"} ELSE {"r2"}]
  /\ open = [c \in Conns |-> TRUE]
  /\ task = [c \in Conns |-> IdleTask(IF c = "b" THEN 0 ELSE 1)]
  /\ inbox = [c \in Conns |->
        CASE c = "a" -> <<Asg("a", "X"), Upd(SJ1, <<"a", 1>>)>>
          [] c = "c" -> <<[Asg("c", "X") EXCEPT !.room = "r2"],
                          Upd(SR2, <<"c", 1>>)>>
          [] OTHER -> <<>>]
  /\ events = 0
  /\ commits = {Cmt(0, <<"a", 1>>, "join", "X", 0, 0, initialState("r1"), SJ1,
                    {"a"}),
                Cmt(1, <<"c", 1>>, "join", "X", 0, 0, initialState("r2"), SR2,
                    {"c"})}
  /\ ended = {End(0, <<"a", 1>>, "join", "X", 0, 0, NoState,
                  initialState("r1"), "assigned"),
              [End(1, <<"c", 1>>, "join", "X", 0, 0, NoState,
                   initialState("r2"), "assigned") EXCEPT !.gameId = "r2"]}

\* The room after a (p1) joined as Alice and the request and the dispatch of
\* its envelope ran to their end: seat X is bound, seat O is free, and
\* process p2 has not heard of the room.
InitWaiting ==
  /\ store = Put(<<>>, gameKey("r1"), JSONstringify(SJ1))
  /\ watch = [p \in Procs |-> Unwatched]
  /\ subActive = [p \in Procs |-> IF p = "p1" THEN {chan("r1")} ELSE {}]
  /\ bus = [p \in Procs |-> <<>>]
  /\ q = [p \in Procs |-> [kv |-> <<>>, pub |-> <<>>, sub |-> <<>>]]
  /\ clientsByGame = [p \in Procs |->
        IF p = "p1" THEN Put(<<>>, "r1", {"a"}) ELSE <<>>]
  /\ clientMeta = [x \in {"a"} |-> [gameId |-> "r1", seat |-> "X",
                                     name |-> NameOf(x)]]
  /\ subscribedGames = [p \in Procs |-> IF p = "p1" THEN {"r1"} ELSE {}]
  /\ open = [c \in Conns |-> TRUE]
  /\ task = [c \in Conns |-> IdleTask(IF c = "a" THEN 1 ELSE 0)]
  /\ inbox = [c \in Conns |->
        IF c = "a" THEN <<Asg("a", "X"), Upd(SJ1, <<"a", 1>>)>> ELSE <<>>]
  /\ events = 0
  /\ commits = {Cmt(0, <<"a", 1>>, "join", "X", 0, 0, initialState("r1"), SJ1, {"a"})}
  /\ ended = {End(0, <<"a", 1>>, "join", "X", 0, 0, NoState, initialState("r1"),
                  "assigned")}

\* ------------------------------------------------------------ Redis side
\* a write of key k marks every client that watches k
Touch(w, k) ==
  [p \in Procs |-> IF k \in w[p].keys THEN [w[p] EXCEPT !.dirty = TRUE]
                   ELSE w[p]]

\* EXEC of a queued SET applies it unless the client is dirty
ExecApplies(p) == ~watch[p].dirty

\* history: the requests that are between their WATCH and their EXEC on key
\* k see a write of k by another request
TouchTasks(t, c, k) ==
  [d \in Conns |->
     IF d # c /\ t[d].pc \in {"get", "exec"} /\ gameKey(t[d].gameId) = k
     THEN [t[d] EXCEPT !.touched = TRUE] ELSE t[d]]

\* PUBLISH hands the message to every sub client subscribed to the channel
Published(b, ch, message) ==
  [p \in Procs |-> IF ch \in subActive[p]
                   THEN Append(b[p], [channel |-> ch, message |-> message])
                   ELSE b[p]]

\* ------------------------------------------------------------ local side
safeSend(inb, c, m) == IF open[c] THEN [inb EXCEPT ![c] = Append(@, m)] ELSE inb

RECURSIVE SendAll(_, _, _)
SendAll(inb, cs, m) ==
  IF cs = {} THEN inb
  ELSE LET c == CHOOSE x \in cs : TRUE
       IN SendAll(IF open[c] THEN [inb EXCEPT ![c] = Append(@, m)] ELSE inb,
                  cs \ {c}, m)

\* every connection of the process, whatever its room
broadcastLocalToAll(inb, p, gameId, m) ==
  SendAll(inb, {c \in Conns : ProcOf(c) = p}, m)

broadcastLocal(inb, p, gameId, m) ==
  IF gameId \notin DOMAIN clientsByGame[p] THEN inb
  ELSE SendAll(inb, clientsByGame[p][gameId], m)

ensureGameSetAdd(cbg, p, gameId, c) ==
  [cbg EXCEPT ![p] = Put(@, gameId,
      (IF gameId \in DOMAIN @ THEN @[gameId] ELSE {}) \cup {c})]

\* history: the open sockets registered for the room when process p commits,
\* on p itself and on the processes subscribed to the room's channel
Registered(p, gameId) ==
  {c \in Conns : /\ open[c]
                 /\ gameId \in DOMAIN clientsByGame[ProcOf(c)]
                 /\ c \in clientsByGame[ProcOf(c)][gameId]
                 /\ ProcOf(c) = p \/ chan(gameId) \in subActive[ProcOf(c)]}

\* history: the outcome of the request of c: the state it read in its last
\* attempt, the seat it acted for (move) or was answered with (join), and
\* how it ended
EndRec(c, read, seat, result, base) ==
  [ev |-> <<c, task[c].n>>, kind |-> task[c].kind, gameId |-> task[c].gameId,
   name |-> task[c].name, seat |-> seat, row |-> task[c].row,
   col |-> task[c].col, subrec |-> task[c].subrec, read |-> read,
   result |-> result, base |-> base, attempt |-> task[c].attempt,
   writes |-> task[c].writes + (IF result = "commit" THEN 1 ELSE 0),
   pubs |-> task[c].pubs + (IF task[c].pc = "publish" THEN 1 ELSE 0),
   seq |-> Cardinality(ended)]

\* a move is decided at its EXEC or its error; a join that committed ends
\* with its reply
Ended(c, result, base) ==
  IF task[c].kind = "join" /\ result = "commit" THEN ended
  ELSE ended \cup {EndRec(c, task[c].cur,
                          IF task[c].kind = "move" THEN task[c].seat ELSE "",
                          result, base)}

AtHead(c, cl) == q[ProcOf(c)][cl] # <<>> /\ Head(q[ProcOf(c)][cl]) = c

\* the task of c got the reply of its command on client cl and issued one on nx
Next1(c, cl, nx) ==
  IF cl = nx
  THEN [q EXCEPT ![ProcOf(c)][cl] = Append(Tail(@), c)]
  ELSE [q EXCEPT ![ProcOf(c)][cl] = Tail(@), ![ProcOf(c)][nx] = Append(@, c)]

\* the task of c got the reply of its command on client cl and ended
Last(c, cl) == [q EXCEPT ![ProcOf(c)][cl] = Tail(@)]

\* ------------------------------------------------------- client events
\* the names seated in the stored record of a room
SeatedNames(gameId) ==
  IF gameKey(gameId) \notin DOMAIN store THEN {}
  ELSE LET pl == JSONparse(store[gameKey(gameId)]).players
       IN {pl[x].name : x \in DOMAIN pl}

\* the names a client may send in a join: its own, and for b also the name
\* of a once a is seated (a player who reconnects on a new socket, or a
\* second player who picks a name already in use)
\* the rooms clients send join for: the first room, and the second one in
\* the runs that start with its record in the store
AskedRooms == {"r1"} \cup {g \in Rooms : gameKey(g) \in DOMAIN store}

Names(c, gameId) ==
  {NameOf(c)} \cup (IF c = "b" THEN {"Alice"} \cap SeatedNames(gameId) ELSE {})

\* a client sends {type:"join", gameId, name}: the handler up to its first
\* command (ensureSubscribed, and loadState when already subscribed)
StartJoin(c, gameId, name) ==
  LET p == ProcOf(c)
      t == [IdleTask(task[c].n + 1) EXCEPT !.kind = "join", !.gameId = gameId,
                                           !.name = name]
  IN /\ open[c] /\ task[c].pc = "idle" /\ events < MaxClientEvents
     /\ events' = events + 1
     /\ IF gameId \in subscribedGames[p]
        THEN /\ clientsByGame' = ensureGameSetAdd(clientsByGame, p, gameId, c)
             /\ task' = [task EXCEPT ![c] = [t EXCEPT !.pc = "load"]]
             /\ q' = [q EXCEPT ![p].kv = Append(@, c)]
             /\ UNCHANGED subscribedGames
        ELSE /\ subscribedGames' = [subscribedGames EXCEPT ![p] = @ \cup {gameId}]
             /\ task' = [task EXCEPT ![c] = [t EXCEPT !.pc = "subscribe"]]
             /\ q' = [q EXCEPT ![p].sub = Append(@, c)]
             /\ UNCHANGED clientsByGame
     /\ UNCHANGED <<store, watch, subActive, bus, clientMeta, open, inbox,
                    commits, ended>>

\* SUBSCRIBE is executed; the handler registers the socket and issues the
\* GET of loadState
JoinSubscribe(c) ==
  LET p == ProcOf(c)
      g == task[c].gameId
  IN /\ task[c].kind = "join" /\ task[c].pc = "subscribe" /\ AtHead(c, "sub")
     /\ subActive' = [subActive EXCEPT ![p] = @ \cup {chan(g)}]
     /\ clientsByGame' = ensureGameSetAdd(clientsByGame, p, g, c)
     /\ task' = [task EXCEPT ![c].pc = "load"]
     /\ q' = Next1(c, "sub", "kv")
     /\ UNCHANGED <<store, watch, bus, clientMeta, subscribedGames, open,
                    inbox, events, commits, ended>>

\* loadState: GET; the handler enters the retry loop and issues WATCH
JoinLoad(c) ==
  LET g == task[c].gameId
      k == gameKey(g)
      st == IF k \in DOMAIN store THEN JSONparse(store[k]) ELSE initialState(g)
  IN /\ task[c].kind = "join" /\ task[c].pc = "load" /\ AtHead(c, "kv")
     /\ task' = [task EXCEPT ![c].st = st, ![c].attempt = 0, ![c].pc = "watch"]
     /\ q' = Next1(c, "kv", "kv")
     /\ UNCHANGED <<store, watch, subActive, bus, clientsByGame, clientMeta,
                    subscribedGames, open, inbox, events, commits, ended>>

\* WATCH of the room key on the process's kv client, then GET is issued
Watch(c) ==
  LET p == ProcOf(c)
  IN /\ task[c].pc = "watch" /\ AtHead(c, "kv")
     /\ watch' = [watch EXCEPT ![p].keys = @ \cup {gameKey(task[c].gameId)}]
     /\ task' = [task EXCEPT ![c].pc = "get", ![c].touched = FALSE]
     /\ q' = Next1(c, "kv", "kv")
     /\ UNCHANGED <<store, subActive, bus, clientsByGame, clientMeta,
                    subscribedGames, open, inbox, events, commits, ended>>

JoinWatch(c) == task[c].kind = "join" /\ Watch(c)

\* the reply and state update a join sends once it has a seat
JoinReply(inb, c, seat, state) ==
  LET ev == <<c, task[c].n>>
      m1 == [type |-> "assigned", seat |-> seat, you |-> task[c].name,
             room |-> task[c].gameId, ev |-> ev]
      m2 == [type |-> "update", state |-> state, ev |-> ev]
  IN safeSend(safeSend(inb, c, m1), c, m2)

\* a rejoin that always answers with seat X
RejoinSeatAlwaysX(current, name) == "X"

\* the seat a join to a full room is answered with, "null" for none
RejoinSeat(current, name) ==
  IF current.players["X"].name = name THEN "X"
  ELSE IF current.players["O"].name = name THEN "O" ELSE "null"

\* GET inside the loop and the branch taken on the state read
\* the finished check of the JOIN handler
GameOverNever(current) == FALSE

GameOver(current) == current.status = "finished"

JoinGet(c) ==
  LET p == ProcOf(c)
      g == task[c].gameId
      k == gameKey(g)
      name == task[c].name
      current == IF k \in DOMAIN store THEN JSONparse(store[k]) ELSE task[c].st
      full == "X" \in DOMAIN current.players /\ "O" \in DOMAIN current.players
      seat == RejoinSeat(current, name)
      playerInfo == [id |-> <<c, task[c].n, task[c].attempt>>, name |-> name]
      next == assignSeat(current, playerInfo)
      seatToYou == IF "O" \in DOMAIN next.players /\ next.players["O"].name = name
                   THEN "O" ELSE "X"
  IN /\ task[c].kind = "join" /\ task[c].pc = "get" /\ AtHead(c, "kv")
     /\ IF GameOver(current)
        THEN /\ task' = [task EXCEPT ![c].pc = "unwatch", ![c].cur = current,
                                     ![c].msg = "Game already finished"]
             /\ q' = Next1(c, "kv", "kv")
             /\ UNCHANGED <<clientMeta, inbox, ended>>
        ELSE IF full /\ seat = "null"
        THEN /\ task' = [task EXCEPT ![c].pc = "unwatch", ![c].cur = current,
                                     ![c].msg = "Game already has two players"]
             /\ q' = Next1(c, "kv", "kv")
             /\ UNCHANGED <<clientMeta, inbox, ended>>
        ELSE IF full
        THEN /\ clientMeta' = Put(clientMeta, c,
                                  [gameId |-> g, seat |-> seat, name |-> name])
             /\ inbox' = JoinReply(inbox, c, seat, current)
             /\ task' = [task EXCEPT ![c] = IdleTask(@.n)]
             /\ q' = Last(c, "kv")
             /\ ended' = ended \cup {EndRec(c, current, seat, "assigned",
                                            current.version)}
        ELSE /\ task' = [task EXCEPT ![c].pc = "exec", ![c].next = next,
                                     ![c].seatToYou = seatToYou,
                                     ![c].cur = current,
                                     ![c].base = current.version]
             /\ q' = Next1(c, "kv", "kv")
             /\ UNCHANGED <<clientMeta, inbox, ended>>
     /\ UNCHANGED <<store, watch, subActive, bus, clientsByGame,
                    subscribedGames, open, events, commits>>

\* UNWATCH, then the error reply of a request that ends without a write
Unwatch(c) ==
  /\ task[c].pc = "unwatch" /\ AtHead(c, "kv")
  /\ watch' = [watch EXCEPT ![ProcOf(c)] = Unwatched]
  /\ inbox' = safeSend(inbox, c, [type |-> "error", message |-> task[c].msg,
                                  ev |-> <<c, task[c].n>>])
  /\ task' = [task EXCEPT ![c] = IdleTask(@.n)]
  /\ q' = Last(c, "kv")
  /\ ended' = Ended(c, task[c].msg, -1)
  /\ UNCHANGED <<store, subActive, bus, clientsByGame, clientMeta,
                 subscribedGames, open, events, commits>>

JoinUnwatch(c) == task[c].kind = "join" /\ Unwatch(c)

\* MULTI / SET / EXEC: the write is applied unless the kv client is dirty;
\* res === null makes the loop continue while attempts are left
Exec(c, attempts) ==
  LET p == ProcOf(c)
      g == task[c].gameId
      k == gameKey(g)
  IN /\ task[c].pc = "exec" /\ AtHead(c, "kv")
     /\ IF ExecApplies(p)
        THEN /\ store' = Put(store, k, JSONstringify(task[c].next))
             /\ watch' = [Touch(watch, k) EXCEPT ![p] = Unwatched]
             /\ task' = [TouchTasks(task, c, k) EXCEPT ![c].pc = "set",
                                                       ![c].writes = @ + 1]
             /\ q' = Next1(c, "kv", "kv")
             /\ commits' = commits \cup
                  {[ev |-> <<c, task[c].n>>, kind |-> task[c].kind,
                    seat |-> IF task[c].kind = "move" THEN task[c].seat
                             ELSE task[c].seatToYou,
                    row |-> task[c].row,
                    col |-> task[c].col, base |-> task[c].base,
                    read |-> task[c].cur,
                    state |-> task[c].next, regs |-> Registered(p, g),
                    touched |-> task[c].touched,
                    attempt |-> task[c].attempt, name |-> task[c].name,
                    seq |-> Cardinality(commits)]}
             /\ ended' = Ended(c, "commit", task[c].base)
             /\ UNCHANGED inbox
        ELSE /\ watch' = [watch EXCEPT ![p] = Unwatched]
             /\ UNCHANGED <<store, commits>>
             /\ IF task[c].attempt + 1 < attempts
                THEN /\ task' = [task EXCEPT ![c].attempt = @ + 1,
                                             ![c].pc = "watch"]
                     /\ q' = Next1(c, "kv", "kv")
                     /\ UNCHANGED <<inbox, ended>>
                ELSE /\ task' = [task EXCEPT ![c] = IdleTask(@.n)]
                     /\ q' = Last(c, "kv")
                     /\ ended' = Ended(c, IF task[c].kind = "move"
                                           THEN "Move conflicted, try again"
                                           ELSE "no reply", -1)
                     /\ inbox' = IF task[c].kind = "move"
                                 THEN safeSend(inbox, c,
                                        [type |-> "error",
                                         message |-> "Move conflicted, try again",
                                         ev |-> <<c, task[c].n>>])
                                 ELSE inbox
     /\ UNCHANGED <<subActive, bus, clientsByGame, clientMeta,
                    subscribedGames, open, events>>

JoinExecSixAttempts(c) == task[c].kind = "join" /\ Exec(c, JoinAttempts + 1)

JoinExec(c) == task[c].kind = "join" /\ Exec(c, JoinAttempts)

\* saveStateAndPublish, first half: the unconditional SET of the same state
SaveSet(c) ==
  LET k == gameKey(task[c].next.gameId)
  IN /\ task[c].pc = "set" /\ AtHead(c, "kv")
     /\ store' = Put(store, k, JSONstringify(task[c].next))
     /\ watch' = Touch(watch, k)
     /\ task' = [TouchTasks(task, c, k) EXCEPT ![c].pc = "publish",
                                               ![c].writes = @ + 1]
     /\ q' = Next1(c, "kv", "pub")
     /\ UNCHANGED <<subActive, bus, clientsByGame, clientMeta,
                    subscribedGames, open, inbox, events, commits, ended>>

JoinSet(c) == task[c].kind = "join" /\ SaveSet(c)

\* an envelope that carries the state the request read
EnvelopeOfRead(c) ==
  JSONstringify([type |-> "state", state |-> task[c].cur,
                 originId |-> INSTANCE_ID(ProcOf(c)),
                 eventId |-> <<c, task[c].n>>])

Envelope(c) ==
  JSONstringify([type |-> "state", state |-> task[c].next,
                 originId |-> INSTANCE_ID(ProcOf(c)),
                 eventId |-> <<c, task[c].n>>])

\* saveStateAndPublish, second half: PUBLISH; then the join records the
\* seat and replies to its own socket
JoinPublish(c) ==
  LET g == task[c].gameId
  IN /\ task[c].kind = "join" /\ task[c].pc = "publish" /\ AtHead(c, "pub")
     /\ bus' = Published(bus, chan(task[c].next.gameId), Envelope(c))
     /\ clientMeta' = Put(clientMeta, c,
           [gameId |-> g, seat |-> task[c].seatToYou, name |-> task[c].name])
     /\ inbox' = JoinReply(inbox, c, task[c].seatToYou, task[c].next)
     /\ task' = [task EXCEPT ![c] = IdleTask(@.n)]
     /\ q' = Last(c, "pub")
     /\ ended' = ended \cup {EndRec(c, task[c].cur, task[c].seatToYou,
                                    "assigned", task[c].base)}
     /\ UNCHANGED <<store, watch, subActive, clientsByGame, subscribedGames,
                    open, events, commits>>

\* a client sends {type:"move", row, col}: the room and the seat come from
\* clientMeta; the handler enters the retry loop and issues WATCH
\* history: the stored state at the moment a move message arrives
SubRec(gameId) ==
  IF gameKey(gameId) \in DOMAIN store
  THEN JSONparse(store[gameKey(gameId)]) ELSE NoState

\* the seat a move of connection c is evaluated for
MoveSeatAlwaysX(c) == "X"

MoveSeat(c) == clientMeta[c].seat

StartMove(c, row, col) ==
  /\ open[c] /\ task[c].pc = "idle" /\ events < MaxClientEvents
  /\ events' = events + 1
  /\ IF c \notin DOMAIN clientMeta
     THEN /\ inbox' = safeSend(inbox, c, [type |-> "error", message |-> "Join first",
                                          ev |-> <<c, task[c].n + 1>>])
          /\ task' = [task EXCEPT ![c].n = @ + 1]
          /\ UNCHANGED q
     ELSE /\ task' = [task EXCEPT ![c] =
                 [IdleTask(@.n + 1) EXCEPT !.kind = "move", !.pc = "watch",
                                           !.gameId = clientMeta[c].gameId,
                                           !.seat = MoveSeat(c),
                                           !.name = clientMeta[c].name,
                                           !.row = row, !.col = col,
                                           !.subrec = SubRec(clientMeta[c].gameId)]]
          /\ q' = [q EXCEPT ![ProcOf(c)].kv = Append(@, c)]
          /\ UNCHANGED inbox
  /\ UNCHANGED <<store, watch, subActive, bus, clientsByGame, clientMeta,
                 subscribedGames, open, commits, ended>>

MoveWatch(c) == task[c].kind = "move" /\ Watch(c)

\* GET inside the loop, then applyMove on the state read
MoveGet(c) ==
  LET k == gameKey(task[c].gameId)
      current == JSONparse(store[k])
      err == validateMove(current, task[c].seat, task[c].row, task[c].col)
  IN /\ task[c].kind = "move" /\ task[c].pc = "get" /\ AtHead(c, "kv")
     /\ IF k \notin DOMAIN store
        THEN task' = [task EXCEPT ![c].pc = "unwatch", ![c].msg = "Game not found"]
        ELSE IF err # ""
        THEN task' = [task EXCEPT ![c].pc = "unwatch", ![c].msg = err,
                                  ![c].cur = current]
        ELSE task' = [task EXCEPT ![c].pc = "exec", ![c].base = current.version,
                        ![c].cur = current,
                        ![c].next = applyMove(current, task[c].seat,
                                              task[c].row, task[c].col)]
     /\ q' = Next1(c, "kv", "kv")
     /\ UNCHANGED <<store, watch, subActive, bus, clientsByGame, clientMeta,
                    subscribedGames, open, inbox, events, commits, ended>>

MoveUnwatch(c) == task[c].kind = "move" /\ Unwatch(c)

MoveExecSevenAttempts(c) == task[c].kind = "move" /\ Exec(c, MoveAttempts - 1)

MoveExec(c) == task[c].kind = "move" /\ Exec(c, MoveAttempts)

MoveSet(c) == task[c].kind = "move" /\ SaveSet(c)

\* saveStateAndPublish, second half: PUBLISH; then the move fans the new
\* state out to the sockets of this process
MovePublish(c) ==
  /\ task[c].kind = "move" /\ task[c].pc = "publish" /\ AtHead(c, "pub")
  /\ bus' = Published(bus, chan(task[c].next.gameId), Envelope(c))
  /\ inbox' = broadcastLocal(inbox, ProcOf(c), task[c].gameId,
                 [type |-> "update", state |-> task[c].next,
                  ev |-> <<c, task[c].n>>])
  /\ task' = [task EXCEPT ![c] = IdleTask(@.n)]
  /\ q' = Last(c, "pub")
  /\ UNCHANGED <<store, watch, subActive, clientsByGame, clientMeta,
                 subscribedGames, open, events, commits, ended>>

\* ------------------------------------------------------------------- bus
\* a callback that takes no envelope for its own
IsOwnNever(envelope, p) == FALSE

\* the envelope was published by this process
IsOwn(envelope, p) == envelope.originId = INSTANCE_ID(p)

\* the subscription callback of process p runs on the oldest pending message
Deliver(p) ==
  LET envelope == JSONparse(Head(bus[p]).message)
  IN /\ bus[p] # <<>>
     /\ bus' = [bus EXCEPT ![p] = Tail(@)]
     /\ inbox' = IF envelope.type # "state" THEN inbox
                 ELSE IF IsOwn(envelope, p) THEN inbox
                 ELSE broadcastLocal(inbox, p, envelope.state.gameId,
                        [type |-> "update", state |-> envelope.state,
                         ev |-> envelope.eventId])
     /\ UNCHANGED <<store, watch, subActive, q, clientsByGame, clientMeta,
                    subscribedGames, open, task, events, commits, ended>>

\* ----------------------------------------------------------------- close
\* the socket of c closes; a handler in progress keeps running
Close(c) ==
  /\ open[c] /\ events < MaxClientEvents
  /\ events' = events + 1
  /\ open' = [open EXCEPT ![c] = FALSE]
  /\ IF c \in DOMAIN clientMeta
     THEN /\ clientsByGame' =
               LET g == clientMeta[c].gameId
                   p == ProcOf(c)
               IN IF g \in DOMAIN clientsByGame[p]
                  THEN [clientsByGame EXCEPT ![p][g] = @ \ {c}]
                  ELSE clientsByGame
          /\ clientMeta' = Del(clientMeta, c)
     ELSE UNCHANGED <<clientsByGame, clientMeta>>
  /\ UNCHANGED <<store, watch, subActive, bus, q, subscribedGames, task,
                 inbox, commits, ended>>

Next ==
  \/ \E c \in Conns : \E g \in AskedRooms : \E name \in Names(c, g) :
       StartJoin(c, g, name)
  \/ \E c \in Conns : JoinSubscribe(c)
  \/ \E c \in Conns : JoinLoad(c)
  \/ \E c \in Conns : JoinWatch(c)
  \/ \E c \in Conns : JoinGet(c)
  \/ \E c \in Conns : JoinUnwatch(c)
  \/ \E c \in Conns : JoinExec(c)
  \/ \E c \in Conns : JoinSet(c)
  \/ \E c \in Conns : JoinPublish(c)
  \/ \E c \in Conns : \E rc \in Cells : StartMove(c, rc[1], rc[2])
  \/ \E c \in Conns : MoveWatch(c)
  \/ \E c \in Conns : MoveGet(c)
  \/ \E c \in Conns : MoveUnwatch(c)
  \/ \E c \in Conns : MoveExec(c)
  \/ \E c \in Conns : MoveSet(c)
  \/ \E c \in Conns : MovePublish(c)
  \/ \E p \in Procs : Deliver(p)
  \/ \E c \in Conns : Close(c)

Spec == Init /\ [][Next]_vars

\* the same servers, started from the room with one player seated
SpecWaiting == InitWaiting /\ [][Next]_vars

\* the same servers, started from the room with one player seated or from
\* the room whose game has ended
SpecEndgame == (InitWaiting \/ InitPlaying(5)) /\ [][Next]_vars

\* The server started in the waiting room or in the running game with a late
\* write still to come.
SpecLateSet == (InitWaiting \/ InitLateSet) /\ [][Next]_vars

\* The server started in the waiting room or with three joins under way.
SpecJoinBusy == (InitWaiting \/ InitJoinBusy) /\ [][Next]_vars

\* The server started in the waiting room or in the long game with a move
\* that keeps being aborted.
SpecMoveBusy == (InitWaiting \/ InitMoveBusy) /\ [][Next]_vars

\* both contention snapshots: a join on its fifth attempt, a move on its seventh
SpecBusy == (InitWaiting \/ InitJoinBusy \/ InitMoveBusy) /\ [][Next]_vars

\* The server started in the waiting room alone or beside a second room.
SpecTwoRooms == (InitWaiting \/ InitTwoRooms) /\ [][Next]_vars

\* ------------------------------------------------- sends that throw
\* The order in which a room's Set is iterated, which is the order of
\* insertion: in the runs that start in the waiting room a is in the set of
\* r1 from the start and stays in it while its socket is open, so it comes
\* before b; c is alone on its process.
InsertionOrder == <<"a", "b", "c">>

Precedes(c, x) ==
  \E i \in DOMAIN InsertionOrder : \E j \in DOMAIN InsertionOrder :
    InsertionOrder[i] = c /\ InsertionOrder[j] = x /\ i < j

\* broadcastLocal in which ws.send throws for the open socket x: the sockets
\* before x in the set were sent the message, the exception leaves the loop
\* and the sockets after x are not reached
broadcastLocalThrows(inb, p, gameId, m, x) ==
  SendAll(inb, {c \in clientsByGame[p][gameId] : Precedes(c, x)}, m)

\* history: the fan-out of message m on process p that threw at socket x,
\* with the open sockets the room's set held
ThrowRec(p, gameId, m, x) ==
  [kind |-> "fanout", ev |-> m.ev, proc |-> p, gameId |-> gameId,
   state |-> m.state, threw |-> x,
   members |-> {c \in clientsByGame[p][gameId] : open[c]},
   seq |-> Cardinality(ended)]

\* the fan-out of a committed move throws at socket x: the catch of the MOVE
\* handler sends the mover an error carrying the message of the exception
MovePublishThrows(c, x) ==
  LET p == ProcOf(c)
      g == task[c].gameId
      m == [type |-> "update", state |-> task[c].next, ev |-> <<c, task[c].n>>]
      e == [type |-> "error", message |-> "send failed",
            ev |-> <<c, task[c].n>>]
      sent == broadcastLocalThrows(inbox, p, g, m, x)
  IN /\ task[c].kind = "move" /\ task[c].pc = "publish" /\ AtHead(c, "pub")
     /\ g \in DOMAIN clientsByGame[p]
     /\ x \in clientsByGame[p][g] /\ open[x]
     /\ bus' = Published(bus, chan(task[c].next.gameId), Envelope(c))
     /\ inbox' = IF c = x THEN sent ELSE safeSend(sent, c, e)
     /\ task' = [task EXCEPT ![c] = IdleTask(@.n)]
     /\ q' = Last(c, "pub")
     /\ ended' = ended \cup {ThrowRec(p, g, m, x)}
     /\ UNCHANGED <<store, watch, subActive, clientsByGame, clientMeta,
                    subscribedGames, open, events, commits>>

\* the fan-out of the subscription callback throws at socket x: the catch of
\* the callback logs the exception
DeliverThrows(p, x) ==
  LET envelope == JSONparse(Head(bus[p]).message)
      g == envelope.state.gameId
      m == [type |-> "update", state |-> envelope.state,
            ev |-> envelope.eventId]
  IN /\ bus[p] # <<>>
     /\ envelope.type = "state" /\ ~IsOwn(envelope, p)
     /\ g \in DOMAIN clientsByGame[p]
     /\ x \in clientsByGame[p][g] /\ open[x]
     /\ bus' = [bus EXCEPT ![p] = Tail(@)]
     /\ inbox' = broadcastLocalThrows(inbox, p, g, m, x)
     /\ ended' = ended \cup {ThrowRec(p, g, m, x)}
     /\ UNCHANGED <<store, watch, subActive, q, clientsByGame, clientMeta,
                    subscribedGames, open, task, events, commits>>

SendFailsNext ==
  \/ Next
  \/ \E c \in Conns : \E x \in Conns : MovePublishThrows(c, x)
  \/ \E p \in Procs : \E x \in Conns : DeliverThrows(p, x)

\* The server started in the waiting room, with sends that may throw.
SpecSendFails == InitWaiting /\ [][SendFailsNext]_vars

\* ------------------------------------------------- the game engine alone
\* The pure functions of game.js applied to one room record, which is kept
\* in store; commits holds the last call that returned, and ended the call
\* that threw since then, if any.
EngineNames == {"Alice", "Carol"}

EngineRec == IF gameKey("r1") \in DOMAIN store THEN JSONparse(store[gameKey("r1")])
             ELSE initialState("r1")

EngineCall(kind, name, seat, row, col, next) ==
  /\ store' = Put(store, gameKey("r1"), JSONstringify(next))
  /\ commits' = {[ev |-> <<"engine", next.version>>, kind |-> kind,
                   seat |-> seat, row |-> row, col |-> col,
                   base |-> EngineRec.version, read |-> EngineRec,
                   state |-> next, regs |-> {}, touched |-> FALSE,
                   attempt |-> 0, name |-> name, seq |-> 0]}
  /\ ended' = {}
  /\ UNCHANGED <<watch, subActive, bus, q, clientsByGame, clientMeta,
                 subscribedGames, open, task, inbox, events>>

\* assignSeat(state, {id, name}) where it does not throw
EngineJoin(name) ==
  LET next == assignSeat(EngineRec, [id |-> <<name, EngineRec.version>>,
                                     name |-> name])
  IN /\ "throw" \notin DOMAIN next
     /\ EngineCall("join", name, IF "O" \in DOMAIN next.players THEN "O" ELSE "X",
                   0, 0, next)

\* applyMove(state, seat, row, col) where validateMove does not throw
EngineMove(seat, row, col) ==
  /\ validateMove(EngineRec, seat, row, col) = ""
  /\ EngineCall("move", "", seat, row, col, applyMove(EngineRec, seat, row, col))

EngineNext ==
  \/ \E name \in EngineNames : EngineJoin(name)
  \/ \E seat \in Seats : \E row \in Idx : \E col \in Idx :
       EngineMove(seat, row, col)

SpecEngine == InitEmpty /\ [][EngineNext]_vars

\* the cells of the calls that may throw: the centre of the board, one cell
\* above the first row and one cell right of the last column
RuleCells == {<<1, 1>>, <<0 - 1, 0>>, <<0, SIZE>>}

\* applyMove(state, seat, row, col) where validateMove throws: the state is
\* left as it was and the message is kept
EngineThrow(seat, row, col) ==
  LET err == validateMove(EngineRec, seat, row, col)
  IN /\ err # ""
     /\ ended' = {[ev |-> <<"engine", EngineRec.version>>, kind |-> "move",
                   gameId |-> "r1", name |-> "", seat |-> seat, row |-> row,
                   col |-> col, subrec |-> NoState, read |-> EngineRec,
                   result |-> err, base |-> 0 - 1, attempt |-> 0,
                   writes |-> 0, pubs |-> 0, seq |-> 0]}
     /\ UNCHANGED <<store, watch, subActive, bus, q, clientsByGame, clientMeta,
                    subscribedGames, open, task, inbox, events, commits>>

RulesNext ==
  \/ \E name \in EngineNames : EngineJoin(name)
  \/ \E seat \in Seats : \E row \in Idx : \E col \in Idx :
       EngineMove(seat, row, col)
  \/ \E seat \in Seats : \E cell \in RuleCells :
       EngineThrow(seat, cell[1], cell[2])

\* the engine with the calls that throw
SpecRules == InitEmpty /\ [][RulesNext]_vars

\* ---------------------------------------------------------------- claims
Rec(k) == JSONparse(store[k])

Rank(status) == CASE status = "waiting" -> 0 [] status = "running" -> 1
                  [] OTHER -> 2

Quiescent == /\ \A c \in Conns : task[c].pc = "idle"
             /\ \A p \in Procs : bus[p] = <<>>

\* C1: once a move request was accepted (its EXEC applied), the mark it
\* placed is in the stored room record in every later state.
C1_AcceptedMoveStays ==
  \A k \in commits :
    k.kind = "move" =>
      /\ gameKey(k.state.gameId) \in DOMAIN store
      /\ Rec(gameKey(k.state.gameId)).board[k.row][k.col] = k.seat

\* C2: the stored record changes value only in a step that is an EXEC which
\* applied its write: no other write of the join or move path changes it.
C2_OnlyCommitChangesRecord ==
  [][store' # store =>
       \E c \in Conns : task[c].pc = "exec" /\ task'[c].pc = "set"]_vars

\* C3: no EXEC of a join or move request applies its write when another
\* request wrote the room key between that request's WATCH and its EXEC.
C3_NoCommitAfterForeignWrite == \A k \in commits : ~k.touched

\* C5: every change of the stored record raises its version by exactly 1 (a
\* new record starts at 1), and one version value is never stored with two
\* different contents.
C5_VersionStepsByOne ==
  [][/\ \A k \in DOMAIN store' :
          (k \notin DOMAIN store \/ store'[k] # store[k]) =>
             JSONparse(store'[k]).version =
               (IF k \in DOMAIN store THEN Rec(k).version ELSE 0) + 1
     /\ \A k1 \in commits' : \A k2 \in commits' :
          (k1.state.gameId = k2.state.gameId
             /\ k1.state.version = k2.state.version) => k1.state = k2.state
    ]_vars

\* C6: the status of the stored record never moves back in the order
\* waiting, running, finished, and a finished record keeps its winner.
C6_StatusMonotonic ==
  [][\A k \in DOMAIN store :
       /\ k \in DOMAIN store'
       /\ Rank(JSONparse(store'[k]).status) >= Rank(Rec(k).status)
       /\ Rec(k).status = "finished" =>
            JSONparse(store'[k]).winner = Rec(k).winner]_vars

\* C7: a seat bound to a player in the stored record is bound to the same
\* player (id and name) in every later stored state.
C7_SeatNeverRebound ==
  [][\A k \in DOMAIN store : \A s \in DOMAIN Rec(k).players :
       /\ k \in DOMAIN store'
       /\ s \in DOMAIN JSONparse(store'[k]).players
       /\ JSONparse(store'[k]).players[s] = Rec(k).players[s]]_vars

Assigned(c) == {i \in DOMAIN inbox[c] : inbox[c][i].type = "assigned"}
Updates(c) == {i \in DOMAIN inbox[c] : inbox[c][i].type = "update"}

\* C8: two connections that joined the same room under two different names
\* and both got an assigned reply got two different seats.
C8_DistinctSeats ==
  \A c1 \in Conns : \A c2 \in Conns :
    \A i \in Assigned(c1) : \A j \in Assigned(c2) :
      (c1 # c2 /\ inbox[c1][i].you # inbox[c2][j].you
         /\ inbox[c1][i].room = inbox[c2][j].room)
      => inbox[c1][i].seat # inbox[c2][j].seat

\* C9: when every request has ended and the bus is drained, every committed
\* change (join or move) has reached, as an update carrying the new state,
\* every connection that was registered for the room at the commit and is
\* still open.
C9_EveryCommitDelivered ==
  Quiescent =>
    \A k \in commits : \A c \in k.regs :
      open[c] => \E i \in Updates(c) : /\ inbox[c][i].ev = k.ev
                                       /\ inbox[c][i].state = k.state

MoveEvs == {k.ev : k \in {x \in commits : x.kind = "move"}}

\* C10: for one accepted move, no connection receives the resulting state
\* twice.
C10_AtMostOnce ==
  \A c \in Conns : \A i \in Updates(c) : \A j \in Updates(c) :
    (inbox[c][i].ev \in MoveEvs /\ inbox[c][i].ev = inbox[c][j].ev) => i = j

\* C10 witness: a move committed on top of the played position has reached
\* the connection on the mover's process and the one on the other process,
\* and no dispatch is pending.
C10_Witness ==
  /\ Quiescent
  /\ \E k \in commits :
       /\ k.kind = "move" /\ k.state.version = 6
       /\ \A c \in {"a", "c"} : open[c] /\ \E i \in Updates(c) : inbox[c][i].ev = k.ev

\* two ended move requests of the two seats that arrived while the stored
\* record was the same running state s: r1 is the seat whose turn it is, with
\* a cell that is on the board and empty in s; r2 is the other seat
RacePair(r1, r2) ==
  /\ r1.gameId = r2.gameId /\ r1.subrec = r2.subrec /\ r1.seat # r2.seat
  /\ r1.subrec # NoState /\ r1.subrec.status = "running"
  /\ r1.seat = r1.subrec.nextTurn
  /\ r1.row \in Idx /\ r1.col \in Idx /\ r1.subrec.board[r1.row][r1.col] = EMPTY

NeverBothOnOneVersion ==
  \A k1 \in commits : \A k2 \in commits :
    (k1.kind = "move" /\ k2.kind = "move" /\ k1.state.gameId = k2.state.gameId
       /\ k1.base = k2.base) => k1.seat = k2.seat

ValidationErrors ==
  {"Game is not running", "Not your turn", "Out of bounds", "Cell not empty"}

RaceOutcome(errors) ==
  \A r1 \in ended : \A r2 \in ended :
    RacePair(r1, r2) =>
      /\ r1.result = "commit" /\ r1.base = r1.subrec.version
      /\ \/ r2.result = "commit" /\ r2.base = r1.subrec.version + 1
         \/ r2.result \in errors

HasLine(board, m) ==
  \/ \E r \in Idx : \A c \in Idx : board[r][c] = m
  \/ \E c \in Idx : \A r \in Idx : board[r][c] = m
  \/ \A i \in Idx : board[i][i] = m
  \/ \A i \in Idx : board[i][SIZE - 1 - i] = m

Marks(board, m) ==
  Cardinality({rc \in Idx \X Idx : board[rc[1]][rc[2]] = m})

\* the state after the moves <<seat, row, col>> of a list were applied in
\* order to a state; a move that validateMove rejects ends the game there
RECURSIVE PlayAll(_, _)
PlayAll(state, moves) ==
  IF moves = <<>> THEN state
  ELSE LET m == Head(moves)
       IN IF validateMove(state, m[1], m[2], m[3]) # ""
          THEN [state EXCEPT !.status = "rejected"]
          ELSE PlayAll(applyMove(state, m[1], m[2], m[3]), Tail(moves))

RowWinMoves ==
  << <<"X", 0, 0>>, <<"O", 1, 0>>, <<"X", 0, 1>>, <<"O", 1, 1>>, <<"X", 0, 2>> >>

DrawMoves ==
  << <<"X", 0, 0>>, <<"O", 0, 1>>, <<"X", 0, 2>>, <<"O", 1, 1>>, <<"X", 1, 0>>,
     <<"O", 1, 2>>, <<"X", 2, 1>>, <<"O", 2, 0>>, <<"X", 2, 2>> >>

RowWinEnd == PlayAll(SJ2, RowWinMoves)
DrawEnd == PlayAll(SJ2, DrawMoves)

\* C17: after every accepted move the new state has status finished and the
\* mover as winner if the mover holds a row, column or diagonal; finished
\* and draw if not and the board is full; running and no winner otherwise.
\* The row-win game ends finished with winner X, the draw game with a draw.
C17_OutcomeFromBoard ==
  /\ \A k \in commits :
       k.kind = "move" =>
         LET b == k.state.board
             full == Marks(b, EMPTY) = 0
         IN /\ HasLine(b, k.seat) =>
                 k.state.status = "finished" /\ k.state.winner = k.seat
            /\ (~HasLine(b, k.seat) /\ full) =>
                 k.state.status = "finished" /\ k.state.winner = "draw"
            /\ (~HasLine(b, k.seat) /\ ~full) =>
                 k.state.status = "running" /\ k.state.winner = "null"
  /\ RowWinEnd.status = "finished" /\ RowWinEnd.winner = "X"
  /\ DrawEnd.status = "finished" /\ DrawEnd.winner = "draw"

\* C17 witness: the last move of the draw game was accepted, and the board
\* is the one the nine moves of that game give.
C17_Witness ==
  \E k \in commits :
    /\ k.kind = "move" /\ k.seat = "X" /\ k.row = 2 /\ k.col = 2
    /\ k.state.board = DrawEnd.board
    /\ k.state.winner = "draw"

\* C19: in every stored room record, status is finished exactly when winner
\* is X, O or draw; a waiting or running record has winner null.
C19_FinishedIffWinner ==
  \A key \in DOMAIN store :
    /\ Rec(key).winner \in {"X", "O", "draw", "null"}
    /\ Rec(key).status \in {"waiting", "running", "finished"}
    /\ Rec(key).status = "finished" <=> Rec(key).winner # "null"

\* C19 witness: a record finished by a full board without a line.
C19_Witness ==
  \E key \in DOMAIN store :
    /\ Rec(key).status = "finished" /\ Rec(key).winner = "draw"
    /\ Marks(Rec(key).board, EMPTY) = 0

\* C20: in every stored room record the number of marked cells is the
\* version minus the number of filled seats, and there are as many X marks
\* as O marks or one more.
C20_MarksAndVersion ==
  \A key \in DOMAIN store :
    LET r == Rec(key)
    IN /\ Marks(r.board, "X") + Marks(r.board, "O")
            = r.version - Cardinality(DOMAIN r.players)
       /\ Marks(r.board, "X") - Marks(r.board, "O") \in {0, 1}

\* C20 witness: a record with both seats filled and an odd number of marks,
\* one more X than O.
C20_Witness ==
  \E key \in DOMAIN store :
    /\ DOMAIN Rec(key).players = Seats
    /\ Marks(Rec(key).board, "X") = 3 /\ Marks(Rec(key).board, "O") = 2
    /\ Rec(key).version = 7

\* ------------------------------------------------- replies to one request
\* the messages connection c received that answer request ev
Replies(c, ev) == {i \in DOMAIN inbox[c] : inbox[c][i].ev = ev}

\* request r was answered with one error carrying message m and nothing
\* else, and it wrote and published nothing
OneErrorOnly(r, m) ==
  LET c == r.ev[1]
  IN /\ r.result = m /\ r.writes = 0 /\ r.pubs = 0
     /\ \A k \in commits : k.ev # r.ev
     /\ Cardinality(Replies(c, r.ev)) <= 1
     /\ open[c] => Cardinality(Replies(c, r.ev)) = 1
     /\ \A i \in Replies(c, r.ev) :
          inbox[c][i].type = "error" /\ inbox[c][i].message = m

Full(st) == st # NoState /\ DOMAIN st.players = Seats

SeatsOfName(st, name) == {x \in DOMAIN st.players : st.players[x].name = name}

\* a join under this name that read st is the join of a third player, to a
\* game in any status
ThirdJoinerAnyStatus(st, name) == Full(st) /\ SeatsOfName(st, name) = {}

\* the same, to a game that has not ended
ThirdJoiner(st, name) ==
  ThirdJoinerAnyStatus(st, name) /\ st.status # "finished"

\* every join that read a state in which it is a third player's join ends
\* with the room-full error alone, and does nothing more after that read
RoomFullRule(IsThird(_, _)) ==
  /\ \A r \in ended :
       (r.kind = "join" /\ IsThird(r.read, r.name)) =>
          OneErrorOnly(r, "Game already has two players")
  /\ \A c \in Conns :
       (task[c].kind = "join" /\ IsThird(task[c].cur, task[c].name)) =>
          /\ task[c].pc = "unwatch"
          /\ task[c].msg = "Game already has two players"

\* C12 as claimed: a join that read a room with both seats filled, under a
\* name that is neither seat holder's, ends with exactly one error 'Game
\* already has two players': no retry and no commit attempt after that
\* read, no assigned reply, no write and no publication.
C12_Original == RoomFullRule(ThirdJoinerAnyStatus)

\* C12 as amended: the same for a room whose game has not ended (a join to
\* a finished game gets the error of the finished check).
C12_ThirdJoinerRejected == RoomFullRule(ThirdJoiner)

\* C12 witness: Bob's join to the room of Alice and Carol has ended and its
\* reply has arrived.
C12_Witness ==
  \E r \in ended :
    /\ r.kind = "join" /\ r.name = "Bob" /\ ThirdJoiner(r.read, r.name)
    /\ Replies(r.ev[1], r.ev) # {}

\* the move is legal in state st
Legal(st, seat, row, col) ==
  /\ st.status = "running" /\ seat = st.nextTurn
  /\ row \in 0 .. 2 /\ col \in 0 .. 2
  /\ st.board[row][col] = EMPTY

\* C13: a move is committed only on a state read in which it is legal
\* (running, the mover's turn, cell on the board and empty).  A move that
\* read a state in which it is not legal ends with exactly one error reply,
\* without commit attempt, retry, write or publication; a move that read a
\* state in which it is legal never gets a rule error, whatever the
\* connection sent before.
C13_OnlyLegalMovesCommit ==
  /\ \A k \in commits :
       k.kind = "move" => Legal(k.read, k.seat, k.row, k.col)
  /\ \A r \in ended :
       (r.kind = "move" /\ r.read # NoState) =>
          IF Legal(r.read, r.seat, r.row, r.col)
          THEN r.result \notin ValidationErrors
          ELSE r.result \in ValidationErrors /\ OneErrorOnly(r, r.result)
  /\ \A c \in Conns :
       (task[c].kind = "move" /\ task[c].cur # NoState
          /\ ~Legal(task[c].cur, task[c].seat, task[c].row, task[c].col)) =>
          task[c].pc = "unwatch" /\ task[c].msg \in ValidationErrors

\* C13 witness: a connection got a rule error for one move, and its next
\* move was committed.
C13_Witness ==
  \E r1 \in ended : \E r2 \in ended :
    /\ r1.kind = "move" /\ r2.kind = "move" /\ r1.ev[1] = r2.ev[1]
    /\ r1.seq < r2.seq
    /\ r1.result \in ValidationErrors /\ r2.result = "commit"
    /\ Replies(r1.ev[1], r1.ev) # {}

\* the joins of the same connection, for the same room and under the same
\* name, that were answered with a seat before request r ended
AssignedBefore(r) ==
  {r0 \in ended : /\ r0.kind = "join" /\ r0.result = "assigned"
                  /\ r0.ev[1] = r.ev[1]
                  /\ r0.gameId = r.gameId /\ r0.name = r.name
                  /\ r0.seq < r.seq}

\* C11: a join that read a room with both seats filled, under the name of a
\* seat holder, is answered with a seat bound to that name, the same seat
\* the earlier joins of that connection under that name were answered with;
\* it writes nothing and publishes nothing.
C11_RejoinSameSeat ==
  \A r \in ended :
    (r.kind = "join" /\ Full(r.read) /\ SeatsOfName(r.read, r.name) # {}) =>
       /\ r.result = "assigned"
       /\ r.seat \in SeatsOfName(r.read, r.name)
       /\ \A r0 \in AssignedBefore(r) : r0.seat = r.seat
       /\ r.writes = 0 /\ r.pubs = 0
       /\ \A k \in commits : k.ev # r.ev

\* the joins of the room of commit k that committed before k
JoinsBefore(k) ==
  {j \in commits : /\ j.kind = "join" /\ j.state.gameId = k.state.gameId
                   /\ j.seq < k.seq}

\* C16: the first join committed for a room creates the record from the
\* initial state and is given seat X, the status staying waiting; the second
\* join committed is given seat O and sets the status to running.  In every
\* stored record that is not finished, status is running exactly when both
\* seats are filled.
C16_JoinSequence ==
  /\ \A k \in commits :
       k.kind = "join" =>
         /\ JoinsBefore(k) = {} =>
              /\ k.read = initialState(k.state.gameId)
              /\ k.seat = "X"
              /\ DOMAIN k.state.players = {"X"}
              /\ k.state.players["X"].name = k.name
              /\ k.state = [k.read EXCEPT !.players = k.state.players,
                                          !.version = 1]
              /\ k.state.status = "waiting"
         /\ Cardinality(JoinsBefore(k)) = 1 =>
              /\ k.seat = "O"
              /\ DOMAIN k.state.players = Seats
              /\ k.state.status = "running"
  /\ \A key \in DOMAIN store :
       Rec(key).status # "finished" =>
         (Rec(key).status = "running" <=> DOMAIN Rec(key).players = Seats)

\* the moves of the room of commit k that committed before k
MovesBefore(k) ==
  {m \in commits : /\ m.kind = "move" /\ m.state.gameId = k.state.gameId
                   /\ m.seq < k.seq}

Other(seat) == IF seat = "X" THEN "O" ELSE "X"

\* C18: a committed move that does not finish the game sets nextTurn to the
\* other seat and one that finishes it leaves nextTurn as it was read; the
\* first committed move of a room is made by X and every later one by the
\* seat other than that of the move committed just before it.
C18_TurnsAlternate ==
  \A k \in commits :
    k.kind = "move" =>
      /\ k.state.status # "finished" => k.state.nextTurn = Other(k.seat)
      /\ k.state.status = "finished" => k.state.nextTurn = k.read.nextTurn
      /\ MovesBefore(k) = {} => k.seat = "X"
      /\ \A m \in MovesBefore(k) :
           (\A m2 \in MovesBefore(k) : m2.seq <= m.seq) => m.seat # k.seat

\* C14: every join request that has ended was answered on its connection:
\* with its seat, or with exactly one error.
C14_JoinAlwaysAnswered ==
  \A r \in ended :
    (r.kind = "join" /\ open[r.ev[1]]) =>
      /\ r.result # "no reply"
      /\ Replies(r.ev[1], r.ev) # {}

Conflict == "Move conflicted, try again"

\* the request of event ev on connection c has run to its end
Done(c, ev) == task[c].pc = "idle" \/ task[c].n # ev[2]

\* C15: a move request ends with 'Move conflicted, try again' only when its
\* eighth attempt was aborted; it has then written nothing and its caller is
\* sent that one error.  A move committed after 1 to 7 aborted attempts sends
\* its caller no error, only the update with the state it committed.
C15_ConflictAfterEightAborts ==
  /\ \A r \in ended :
       (r.kind = "move" /\ r.result = Conflict) =>
          /\ r.attempt + 1 = MoveAttempts
          /\ OneErrorOnly(r, Conflict)
  /\ \A c \in Conns : \A i \in DOMAIN inbox[c] :
       (inbox[c][i].type = "error" /\ inbox[c][i].message = Conflict) =>
          \E r \in ended : r.ev = inbox[c][i].ev /\ r.result = Conflict
  /\ \A k \in commits :
       (k.kind = "move" /\ k.attempt >= 1) =>
          LET c == k.ev[1]
          IN /\ k.attempt < MoveAttempts
             /\ \A i \in Replies(c, k.ev) : inbox[c][i] = Upd(k.state, k.ev)
             /\ (open[c] /\ Done(c, k.ev)) => Replies(c, k.ev) # {}

\* a request was aborted eight times and its caller holds the error, and
\* another was committed at its second attempt and its caller holds the
\* update
C15_Witness ==
  /\ \E r \in ended :
       /\ r.kind = "move" /\ r.result = Conflict
       /\ r.attempt + 1 = MoveAttempts
       /\ \E i \in Replies(r.ev[1], r.ev) :
            inbox[r.ev[1]][i].message = Conflict
  /\ \E k \in commits :
       /\ k.kind = "move" /\ k.attempt >= 1
       /\ Replies(k.ev[1], k.ev) # {}

\* the rooms in whose local connection set connection c is, on its process
MemberOf(c) ==
  {g \in DOMAIN clientsByGame[ProcOf(c)] : c \in clientsByGame[ProcOf(c)][g]}

\* C21: a closed connection none of whose requests is still being handled
\* is in no room's local connection set and has no entry in clientMeta.
C21_ClosedIsForgotten ==
  \A c \in Conns :
    (~open[c] /\ task[c].pc = "idle") =>
       /\ c \notin DOMAIN clientMeta
       /\ MemberOf(c) = {}

\* the rooms for which a join of connection c was answered with a seat
JoinedRooms(c) ==
  {r.gameId : r \in {x \in ended : /\ x.ev[1] = c /\ x.kind = "join"
                                   /\ x.result = "assigned"}}

\* C22: a connection with no request in progress is in the local connection
\* set of a room only if one of its joins for that room was answered with a
\* seat, and it holds an update for a room only in that case.
C22_MembersJoined ==
  \A c \in Conns :
    task[c].pc = "idle" =>
       /\ MemberOf(c) \subseteq JoinedRooms(c)
       /\ \A i \in Updates(c) : inbox[c][i].state.gameId \in JoinedRooms(c)

Finished(st) == st # NoState /\ st.status = "finished"

\* C23: a join that read a finished record ends with the one error 'Game
\* already finished' sent to its caller, no seat reply, no write, no
\* publication and no commit, whatever the joining name.
C23_FinishedJoinRejected ==
  \A r \in ended :
    (r.kind = "join" /\ Finished(r.read)) =>
       OneErrorOnly(r, "Game already finished")

\* a holder of a seat of the finished game joined again and holds the error
C23_Witness ==
  \E r \in ended :
    /\ r.kind = "join" /\ Finished(r.read)
    /\ SeatsOfName(r.read, r.name) # {}
    /\ Replies(r.ev[1], r.ev) # {}

\* the joins of the connection of request r answered with a seat before r
\* was sent
SeatedBefore(c, n) ==
  {j \in ended : /\ j.kind = "join" /\ j.result = "assigned"
                 /\ j.ev[1] = c /\ j.ev[2] < n}

LastOf(js) == CHOOSE j \in js : \A j2 \in js : j2.ev[2] <= j.ev[2]

JoinFirst(c) ==
  {i \in DOMAIN inbox[c] : /\ inbox[c][i].type = "error"
                           /\ inbox[c][i].message = "Join first"}

\* C24: every move that was evaluated, and every move being handled, is for
\* the room and the seat with which the last join of its connection before
\* it was answered; a move answered 'Join first' came from a connection no
\* join of which had been answered with a seat, and the request caused no
\* store command: it has no attempt, no commit and no other reply.
C24_MoveUsesRecordedSeat ==
  /\ \A r \in ended :
       r.kind = "move" =>
         /\ SeatedBefore(r.ev[1], r.ev[2]) # {}
         /\ r.seat = LastOf(SeatedBefore(r.ev[1], r.ev[2])).seat
         /\ r.gameId = LastOf(SeatedBefore(r.ev[1], r.ev[2])).gameId
  /\ \A c \in Conns :
       task[c].kind = "move" =>
         /\ SeatedBefore(c, task[c].n) # {}
         /\ task[c].seat = LastOf(SeatedBefore(c, task[c].n)).seat
         /\ task[c].gameId = LastOf(SeatedBefore(c, task[c].n)).gameId
  /\ \A c \in Conns : \A i \in JoinFirst(c) :
       LET ev == inbox[c][i].ev
       IN /\ SeatedBefore(c, ev[2]) = {}
          /\ Replies(c, ev) = {i}
          /\ \A r \in ended : r.ev # ev
          /\ \A k \in commits : k.ev # ev
          /\ ~(task[c].n = ev[2] /\ task[c].pc # "idle")

\* a connection that never joined holds 'Join first', and the move of a
\* seated connection was committed and answered
C24_Witness ==
  /\ \E c \in Conns : JoinFirst(c) # {}
  /\ \E r \in ended :
       /\ r.kind = "move" /\ r.result = "commit"
       /\ Replies(r.ev[1], r.ev) # {}

\* the request of connection c took this step, and the room it is for
Acts(c) == task'[c].pc # task[c].pc
RoomOf(c) == IF task[c].pc = "idle" THEN task'[c].gameId ELSE task[c].gameId

SameRecord(g) ==
  /\ gameKey(g) \in DOMAIN store' <=> gameKey(g) \in DOMAIN store
  /\ gameKey(g) \in DOMAIN store => store'[gameKey(g)] = store[gameKey(g)]

\* the messages a step added to a sequence
Added(old, new) == {new[i] : i \in (Len(old) + 1) .. Len(new)}

AttemptLimit(kind) == IF kind = "join" THEN JoinAttempts ELSE MoveAttempts

\* C26: a join request makes at most 5 commit attempts and a move request at
\* most 8, whatever the other requests do.  The attempt index of a running
\* request and of every request that has ended stays below the limit of its
\* kind; an aborted EXEC either starts the next attempt, with the index one
\* higher, or ends the request; and no other step of a request changes its
\* index.  So the index grows with every retry and no request retries forever.
C26_BoundedRetries ==
  /\ [](/\ \A c \in Conns :
            task[c].pc # "idle" =>
              task[c].attempt < AttemptLimit(task[c].kind)
        /\ \A r \in ended : r.attempt < AttemptLimit(r.kind)
        /\ \A k \in commits : k.attempt < AttemptLimit(k.kind))
  /\ [][\A c \in Conns :
          (task[c].pc # "idle" /\ task'[c].pc # "idle") =>
             IF task[c].pc = "exec" /\ task'[c].pc = "watch"
             THEN task'[c].attempt = task[c].attempt + 1
             ELSE task'[c].attempt = task[c].attempt]_vars

\* a join has ended after its fifth attempt was aborted: it wrote nothing and
\* its connection is idle again
C26_Witness ==
  \E r \in ended :
    /\ r.kind = "join" /\ r.attempt + 1 = JoinAttempts
    /\ r.result = "no reply" /\ r.writes = 0
    /\ task[r.ev[1]].pc = "idle"

\* the state holds seat X for this name and seat O for nobody
HoldsXAlone(st, name) ==
  /\ st # NoState /\ DOMAIN st.players = {"X"}
  /\ st.players["X"].name = name

\* C27: no stored record has both seats bound to one display name; a join
\* that read a record in which its name holds seat X and seat O is free is
\* answered with seat X, and neither commits nor writes anything.
C27_OneSeatPerName ==
  /\ \A k \in DOMAIN store :
       Full(Rec(k)) => Rec(k).players["X"].name # Rec(k).players["O"].name
  /\ \A r \in ended :
       (r.kind = "join" /\ HoldsXAlone(r.read, r.name)) =>
          /\ r.result = "assigned" /\ r.seat = "X"
          /\ r.writes = 0
          /\ \A k \in commits : k.ev # r.ev

\* state st was committed by the request of event ev, by some request
CommittedBy(cs, ev, st) == \E k \in cs : k.ev = ev /\ k.state = st
Committed(cs, st) == \E k \in cs : k.state = st

\* the request has ended without a commit: rejected, or every attempt aborted
Fruitless(r) == r.result \notin {"assigned", "commit"}

\* C28: every envelope on the bus carries the state its own request committed
\* and every update carries a committed state, the commit having been made
\* before the step that published or sent it.  For a request that ended
\* rejected or with every attempt aborted there is no publication, no pending
\* envelope and no update in any inbox.  The caller of a successful join has
\* its assigned reply and, after it, its update.
C28_OnlyCommittedStatesSent ==
  /\ [](/\ \A p \in Procs : \A i \in DOMAIN bus[p] :
            LET e == JSONparse(bus[p][i].message)
            IN CommittedBy(commits, e.eventId, e.state)
        /\ \A c \in Conns : \A i \in Updates(c) :
            Committed(commits, inbox[c][i].state)
        /\ \A r \in ended :
            Fruitless(r) =>
              /\ r.pubs = 0
              /\ \A p \in Procs : \A i \in DOMAIN bus[p] :
                   JSONparse(bus[p][i].message).eventId # r.ev
              /\ \A c \in Conns : \A i \in Updates(c) :
                   inbox[c][i].ev # r.ev
        /\ \A r \in ended :
            (r.kind = "join" /\ r.result = "assigned" /\ open[r.ev[1]]) =>
              LET c == r.ev[1]
              IN /\ \E i \in Replies(c, r.ev) : \E j \in Replies(c, r.ev) :
                      /\ inbox[c][i].type = "assigned"
                      /\ inbox[c][j].type = "update" /\ i < j
                 /\ \A i \in Replies(c, r.ev) : \A j \in Replies(c, r.ev) :
                      (inbox[c][i].type = "assigned"
                         /\ inbox[c][j].type = "update") => i < j)
  /\ [][/\ \A p \in Procs : \A m \in Added(bus[p], bus'[p]) :
            LET e == JSONparse(m.message)
            IN CommittedBy(commits, e.eventId, e.state)
        /\ \A c \in Conns : \A m \in Added(inbox[c], inbox'[c]) :
            m.type = "update" => Committed(commits, m.state)]_vars

\* C28 witness: a join whose first commit attempt was aborted has ended with
\* an error, and another join has committed, has published its envelope and
\* has answered its caller with two messages.
C28_Witness ==
  /\ \E r \in ended :
       r.kind = "join" /\ Fruitless(r) /\ r.attempt >= 1
  /\ \E k \in commits : \E r \in ended :
       /\ k.kind = "join" /\ r.ev = k.ev /\ r.result = "assigned"
       /\ r.pubs = 1
       /\ Cardinality(Replies(k.ev[1], k.ev)) = 2
       /\ k.ev # <<"a", 1>>

\* the SUBSCRIBE commands of process p for room g that await their reply
Subscribing(p, g) ==
  {c \in Conns : /\ ProcOf(c) = p /\ task[c].pc = "subscribe"
                 /\ task[c].gameId = g}

\* C29: a step that sends a connection its assigned reply for a room is
\* taken when the subscription of the connection's process to the room's
\* channel is active; and a process never has a second SUBSCRIBE for a room
\* under way, nor one under way for a room it is subscribed to.
C29_SubscribedWhenAssigned ==
  /\ [](\A p \in Procs : \A g \in Rooms :
          Cardinality(Subscribing(p, g))
            + (IF chan(g) \in subActive[p] THEN 1 ELSE 0) <= 1)
  /\ [][\A c \in Conns : \A m \in Added(inbox[c], inbox'[c]) :
          m.type = "assigned" => chan(m.room) \in subActive[ProcOf(c)]]_vars

\* the rules a move breaks in the state it is evaluated on
NotRunning(st) == st.status \in {"waiting", "finished"}
WrongTurn(st, seat) == seat # st.nextTurn
OffBoard(row, col) == ~(row \in 0 .. 2 /\ col \in 0 .. 2)
Occupied(st, row, col) == ~OffBoard(row, col) /\ st.board[row][col] \in Seats

\* C30: a move that breaks several rules is answered with the error of the
\* first one it breaks in the order not running, wrong turn, out of bounds,
\* cell occupied: any move on a waiting or finished game gets 'Game is not
\* running', a move out of turn on a running game gets 'Not your turn'
\* whatever its cell, a move in turn off the board gets 'Out of bounds', and
\* a move in turn to an occupied cell gets 'Cell not empty'.
C30_FirstRuleReported ==
  \A r \in ended :
    (r.kind = "move" /\ r.read # NoState) =>
       LET nr == NotRunning(r.read)
           wt == WrongTurn(r.read, r.seat)
           ob == OffBoard(r.row, r.col)
           oc == Occupied(r.read, r.row, r.col)
       IN /\ nr => r.result = "Game is not running"
          /\ (~nr /\ wt) => r.result = "Not your turn"
          /\ (~nr /\ ~wt /\ ob) => r.result = "Out of bounds"
          /\ (~nr /\ ~wt /\ ~ob /\ oc) => r.result = "Cell not empty"

\* C30 witness: on a running game a move out of turn to an occupied cell was
\* answered 'Not your turn'.
C30_Witness ==
  \E r \in ended :
    /\ r.kind = "move" /\ r.read # NoState
    /\ ~NotRunning(r.read) /\ WrongTurn(r.read, r.seat)
    /\ Occupied(r.read, r.row, r.col)
    /\ r.result = "Not your turn"

\* the open sockets in the set of room g on process p
OpenMembers(p, g) ==
  IF g \in DOMAIN clientsByGame[p]
  THEN {c \in clientsByGame[p][g] : open[c]} ELSE {}

\* connection c holds the update of event ev carrying state st
HasUpdate(c, ev, st) ==
  \E i \in Updates(c) : inbox[c][i].ev = ev /\ inbox[c][i].state = st

\* C31: a fan-out reaches every open socket of the room's set on its process
\* whatever the other sockets of the set do.  After a fan-out in which the
\* send to one socket threw, every other socket that was open in the set
\* holds the update; and a fan-out step in which no send throws appends the
\* update to every open socket of the set, the closed ones being skipped.
C31_FanOutIndependent ==
  /\ [](\A r \in ended :
          r.kind = "fanout" =>
            \A c \in r.members \ {r.threw} : HasUpdate(c, r.ev, r.state))
  /\ [][\A c \in Conns :
          (task[c].kind = "move" /\ task[c].pc = "publish"
             /\ task'[c].pc = "idle" /\ ended' = ended) =>
            \A c2 \in OpenMembers(ProcOf(c), task[c].gameId) :
              \E m \in Added(inbox[c2], inbox'[c2]) :
                m.type = "update" /\ m.state = task[c].next]_vars

====
